---- MODULE Spec2Model ----
(***************************************************************************)
(* Reeds-Shepp path visualizer (src/src/main.rs): the interactive pose     *)
(* editor driven by the frame loop of main, and the path interpolator      *)
(* generate_path_points.                                                   *)
(*                                                                         *)
(* Numbers.  The program computes in f32/f64; the model computes in fixed  *)
(* point.  World lengths, radians and the values of sin/cos are integers   *)
(* in units of 1/ONE (ONE = 10^4).  Frame (screen) coordinates are         *)
(* integers in units of 1/FX pixel, FX = ONE / DRAW_SCALE, so that one     *)
(* frame unit is one world unit and the two coordinate transforms lose     *)
(* nothing.  Headings at rest (theta_degree) are whole degrees: atan2 is   *)
(* rounded to the nearest degree.                                          *)
(***************************************************************************)
EXTENDS Integers, Sequences, FiniteSets

(***************************************************************************)
(* Program constants (main.rs lines 19-27).                                *)
(***************************************************************************)
WINDOW_WIDTH == 1024
WINDOW_HEIGHT == 768
CAR_WIDTH == 30
CAR_LENGTH == 50
PATH_RESOLUTION == 30
TURNING_RADIUS == 1
DRAW_SCALE == 50
HEADLIGHT_SIZE_SCREEN == 8

(***************************************************************************)
(* Bounds of the model.                                                    *)
(***************************************************************************)
\* Largest path index the combo box is made to select (the program: 11).
MaxIndex == 1
\* Most button transitions (down or up events) delivered inside one frame.
MaxEvents == 2
\* The count of loop iterations run on one frame's input saturates here.
MaxSpin == 2
\* Longest path handed to generate_path_points when it is checked on its own.
MaxLen == 2

(***************************************************************************)
(* Fixed point.                                                            *)
(***************************************************************************)
ONE == 10^4
FX == ONE \div DRAW_SCALE
\* pi in units of 1/ONE radian.
PI == 31416

Abs(a) == IF a < 0 THEN -a ELSE a
Sgn(a) == IF a < 0 THEN -1 ELSE IF a > 0 THEN 1 ELSE 0
Max2(a, b) == IF a >= b THEN a ELSE b
Min2(a, b) == IF a <= b THEN a ELSE b
\* a / b rounded to the nearest integer, away from zero at a tie (b > 0).
DivRound(a, b) == Sgn(a) * ((Abs(a) + b \div 2) \div b)
\* The product of two fixed-point numbers.
MulFix(a, b) == DivRound(a * b, ONE)
\* ceil(a / b) for a >= 0, b > 0.
CeilDiv(a, b) == (a + b - 1) \div b

\* f64::to_radians, degrees to units of 1/ONE radian.
to_radians(deg) == DivRound(deg * PI, 180)

\* sin on the first quadrant, 0 <= x <= PI/2, by its Taylor polynomial to x^9
\* in Horner form: x (1 - x2/6 (1 - x2/20 (1 - x2/42 (1 - x2/72)))), x2 = x^2.
Horner(x2, h, k) == ONE - DivRound(x2 * h, k * ONE)
SinPoly(x, x2) ==
    MulFix(x, Horner(x2, Horner(x2, Horner(x2, Horner(x2, ONE, 72), 42), 20), 6))
SinQuadrant(x) == Min2(SinPoly(x, MulFix(x, x)), ONE)

\* An angle of one turn, 0 <= y < 2 PI, folded onto the first quadrant.
FoldAngle(y) ==
    IF y <= PI \div 2 THEN y
    ELSE IF y <= (3 * PI) \div 2 THEN Abs(PI - y)
    ELSE 2 * PI - y
SinTurn(y) == (IF y <= PI THEN 1 ELSE -1) * SinQuadrant(FoldAngle(y))

\* f64::sin and f64::cos of an angle in units of 1/ONE radian.
Sin(x) == SinTurn(x % (2 * PI))
Cos(x) == SinTurn((x + PI \div 2) % (2 * PI))

(***************************************************************************)
(* Option<T>: None is the empty sequence, Some(v) the one-element one.     *)
(***************************************************************************)
None == <<>>
Some(v) == <<v>>
IsSome(o) == o # <<>>
Unwrap(o) == o[1]

vec2(x, y) == [x |-> x, y |-> y]
Pose(x, y, theta_degree) == [x |-> x, y |-> y, theta_degree |-> theta_degree]

(***************************************************************************)
(* Pointer positions the frames deliver, in pixels.  They lie on one line  *)
(* of direction (3, 4): b is 5 px from a, c and d are 25 px from a on      *)
(* either side, and c alone lies inside the widget rectangle.              *)
(***************************************************************************)
Px(n) == n * FX
PointA == vec2(Px(840), Px(100))
PointB == vec2(Px(843), Px(104))
PointC == vec2(Px(855), Px(120))
PointD == vec2(Px(825), Px(80))
MousePoints == {PointA, PointB, PointC, PointD}

\* Differences of two pointer positions, on either orientation of the Y axis.
DeltaDom ==
    {<<p.x - q.x, p.y - q.y>> : p \in MousePoints, q \in MousePoints}
        \cup {<<p.x - q.x, q.y - p.y>> : p \in MousePoints, q \in MousePoints}

Degrees == (-179)..180
\* cos and sin of the whole degrees.
CosDegTab == [a \in Degrees |-> Cos(to_radians(a))]
SinDegTab == [a \in Degrees |-> Sin(to_radians(a))]
Projection(d, a) == d[1] * CosDegTab[a] + d[2] * SinDegTab[a]

\* The directions of largest projection, and the one nearest to 0 among them.
BestDirs(d, vals) == {a \in Degrees : \A w \in vals : Projection(d, a) >= w}
NearestZero(dirs) == CHOOSE a \in dirs : \A b \in dirs : Abs(a) <= Abs(b)

\* f64::atan2(dy, dx).to_degrees(), to the nearest degree: the direction on
\* which <<dx, dy>> projects longest; atan2(0, 0) = 0.  Tabulated as the set
\* of pairs <<d, angle>>.
NearestDegree(d) ==
    IF d = <<0, 0>> THEN 0
    ELSE NearestZero(BestDirs(d, {Projection(d, a) : a \in Degrees}))
Atan2Tab == {<<d, NearestDegree(d)>> : d \in DeltaDom}
Atan2Deg(dy, dx) == (CHOOSE e \in Atan2Tab : e[1] = <<dx, dy>>)[2]

(***************************************************************************)
(* The editor state (struct State, without the combo box labels).          *)
(***************************************************************************)
State_new ==
    [app_state |-> "PlacingStart",
     start_pose |-> None,
     end_pose |-> None,
     drag_state_initial |-> None,
     dragging_modify |-> None,
     selected_path_index |-> 0,
     reflect_path |-> FALSE,
     timeflip_path |-> FALSE,
     current_path_points |-> None,
     current_raw_path |-> None]

\* reset that forgets to drop the interpolated points.
reset_keep_points(s) == [State_new EXCEPT !.current_path_points = s.current_path_points]

\* State::reset: everything but the labels is replaced by State::new().
reset(s) == State_new

\* screen_to_world without the flip of the Y axis.
screen_to_world_unflipped(screen_pos) ==
    << ((screen_pos.x - (WINDOW_WIDTH * FX) \div 2) * ONE) \div (DRAW_SCALE * FX),
       ((screen_pos.y - (WINDOW_HEIGHT * FX) \div 2) * ONE) \div (DRAW_SCALE * FX) >>

\* State::screen_to_world: frame point -> world pair <<x, y>>.
screen_to_world(screen_pos) ==
    << ((screen_pos.x - (WINDOW_WIDTH * FX) \div 2) * ONE) \div (DRAW_SCALE * FX),
       (((WINDOW_HEIGHT * FX) \div 2 - screen_pos.y) * ONE) \div (DRAW_SCALE * FX) >>

\* State::world_to_screen_static: world pair -> frame point.
world_to_screen_static(world_x, world_y) ==
    vec2((world_x * DRAW_SCALE * FX) \div ONE + (WINDOW_WIDTH * FX) \div 2,
         (WINDOW_HEIGHT * FX) \div 2 - (world_y * DRAW_SCALE * FX) \div ONE)

\* calculate_initial_drag_angle with the threshold itself accepted (>=).
calculate_initial_drag_angle_ge(s) ==
    IF IsSome(s.drag_state_initial)
    THEN LET drag == Unwrap(s.drag_state_initial)
             dx == drag.current_pos.x - drag.start_pos.x
             dy == drag.current_pos.y - drag.start_pos.y
         IN  IF dx * dx + dy * dy >= (5 * FX) * (5 * FX)
             THEN Some(-Atan2Deg(dy, dx))
             ELSE None
    ELSE None

\* State::calculate_initial_drag_angle: Some(world angle in degrees) once the
\* drag is longer than 5 pixels, None otherwise.
calculate_initial_drag_angle(s) ==
    IF IsSome(s.drag_state_initial)
    THEN LET drag == Unwrap(s.drag_state_initial)
             dx == drag.current_pos.x - drag.start_pos.x
             dy == drag.current_pos.y - drag.start_pos.y
         IN  IF dx * dx + dy * dy > (5 * FX) * (5 * FX)
             THEN Some(-Atan2Deg(dy, dx))
             ELSE None
    ELSE None

\* State::check_body_hit: the click, in the pose's frame, lies in the body
\* rectangle (borders included).
check_body_hit(world_click_pos, pose) ==
    LET angle_rad == to_radians(pose.theta_degree)
        cos_a == Cos(angle_rad)
        sin_a == Sin(angle_rad)
        dx == world_click_pos[1] - pose.x
        dy == world_click_pos[2] - pose.y
        \* local_x and local_y times ONE
        local_x == dx * cos_a + dy * sin_a
        local_y == (-dx) * sin_a + dy * cos_a
        half_len_world == (CAR_LENGTH * ONE) \div (DRAW_SCALE * 2)
        half_wid_world == (CAR_WIDTH * ONE) \div (DRAW_SCALE * 2)
    IN  Abs(local_x) <= half_len_world * ONE /\ Abs(local_y) <= half_wid_world * ONE

\* State::get_headlight_world_pos.
get_headlight_world_pos(pose) ==
    LET angle_rad == to_radians(pose.theta_degree)
        head_offset == (CAR_LENGTH * ONE) \div (DRAW_SCALE * 2)
    IN  << pose.x + MulFix(head_offset, Cos(angle_rad)),
           pose.y + MulFix(head_offset, Sin(angle_rad)) >>

\* check_headlight_hit with the radius left in pixels (not divided by
\* DRAW_SCALE).
check_headlight_hit_pixels(world_click_pos, pose) ==
    LET h == get_headlight_world_pos(pose)
        dx == world_click_pos[1] - h[1]
        dy == world_click_pos[2] - h[2]
        dist_sq == (dx \div 100) * (dx \div 100) + (dy \div 100) * (dy \div 100)
        hit_radius_world == (HEADLIGHT_SIZE_SCREEN * (ONE \div 100) * 3) \div 2
    IN  dist_sq < hit_radius_world * hit_radius_world

\* State::check_headlight_hit: strictly inside the circle around the headlight.
check_headlight_hit(world_click_pos, pose) ==
    LET h == get_headlight_world_pos(pose)
        dx == world_click_pos[1] - h[1]
        dy == world_click_pos[2] - h[2]
        dist_sq == dx * dx + dy * dy
        hit_radius_world == (HEADLIGHT_SIZE_SCREEN * ONE * 3) \div (DRAW_SCALE * 2)
    IN  dist_sq < hit_radius_world * hit_radius_world

(***************************************************************************)
(* The planning library reeds_shepp_lib, used through its interface only.  *)
(* A PathElement is [steering, gear, param]; a Path a sequence of them.    *)
(***************************************************************************)
PathElement(steering, gear, param) ==
    [steering |-> steering, gear |-> gear, param |-> param]

\* utils::normalize_angle_rad: the angle brought into one turn.
normalize_angle_rad(x) == x % (2 * PI)

\* utils::change_of_basis: the pose p2 seen from the pose p1.
Rotated(dx, dy, cos_t, sin_t, theta_degree) ==
    Pose(DivRound(dx * cos_t + dy * sin_t, ONE),
         DivRound((-dx) * sin_t + dy * cos_t, ONE),
         theta_degree)
change_of_basis(p1, p2) ==
    Rotated(p2.x - p1.x, p2.y - p1.y,
            Cos(to_radians(p1.theta_degree)), Sin(to_radians(p1.theta_degree)),
            p2.theta_degree - p1.theta_degree)

\* timeflip: every segment's gear reversed.
timeflip(path) ==
    [i \in 1..Len(path) |->
        [path[i] EXCEPT !.gear = IF @ = "Forward" THEN "Backwards" ELSE "Forward"]]

\* reflect: every left turn a right turn and back.
reflect(path) ==
    [i \in 1..Len(path) |->
        [path[i] EXCEPT !.steering = IF @ = "Left" THEN "Right"
                                     ELSE IF @ = "Right" THEN "Left" ELSE @]]

\* The paths the path functions answer with here: none (no such path), segments
\* that are all of zero length, and two short drivable ones.
SamplePaths ==
    << <<>>,
       << PathElement("Straight", "Forward", 0) >>,
       << PathElement("Left", "Forward", 500),
          PathElement("Straight", "Backwards", 0),
          PathElement("Straight", "Forward", 1000) >>,
       << PathElement("Right", "Backwards", 700),
          PathElement("Left", "Forward", 0) >> >>

\* PATH_FNS[index](x, y, theta_degree): a function of its arguments alone.
PATH_FNS(index, x, y, theta_degree) ==
    SamplePaths[((index + x \div 1000 + 2 * (y \div 1000) + theta_degree \div 45)
                    % Len(SamplePaths)) + 1]

(***************************************************************************)
(* generate_path_points.  The running pose is [x, y, theta] (current_x,    *)
(* current_y, current_theta_rad); Interpolate answers the points pushed    *)
(* and the pose reached.                                                   *)
(***************************************************************************)
Running(x, y, theta) == [x |-> x, y |-> y, theta |-> theta]

\* The straight step with sin and cos exchanged.
StraightStep_swapped(cur, dist_step) ==
    Running(cur.x + MulFix(dist_step, Sin(cur.theta)),
            cur.y + MulFix(dist_step, Cos(cur.theta)),
            cur.theta)

\* Lines 262-267.
StraightStep(cur, dist_step) ==
    Running(cur.x + MulFix(dist_step, Cos(cur.theta)),
            cur.y + MulFix(dist_step, Sin(cur.theta)),
            cur.theta)

\* The left step by the tangent at the current heading (Euler stepping)
\* in place of the chord of the arc.
LeftStep_tangent(cur, next_theta) ==
    Running(cur.x + MulFix(TURNING_RADIUS * (next_theta - cur.theta), Cos(cur.theta)),
            cur.y + MulFix(TURNING_RADIUS * (next_theta - cur.theta), Sin(cur.theta)),
            next_theta)

\* Lines 268-275, from next_theta on.
LeftStep(cur, next_theta) ==
    Running(cur.x + TURNING_RADIUS * (Sin(next_theta) - Sin(cur.theta)),
            cur.y + TURNING_RADIUS * (Cos(cur.theta) - Cos(next_theta)),
            next_theta)

\* Lines 276-283, from next_theta on.
RightStep(cur, next_theta) ==
    Running(cur.x + TURNING_RADIUS * (Sin(cur.theta) - Sin(next_theta)),
            cur.y + TURNING_RADIUS * (Cos(next_theta) - Cos(cur.theta)),
            next_theta)

\* One substep of a segment: the match on element.steering, lines 261-284.
\* step is param / num_steps * gear_mult.
Substep(cur, steering, step) ==
    IF steering = "Straight" THEN StraightStep(cur, step)
    ELSE IF steering = "Left"
    THEN LeftStep(cur, normalize_angle_rad(cur.theta + step))
    ELSE RightStep(cur, normalize_angle_rad(cur.theta - step))

\* The inner loop "for _i in 1..=num_steps", from substep i on; Pushed is its
\* lines 285-288 for the pose next.
RECURSIVE Substeps(_, _, _, _, _, _)
RECURSIVE Pushed(_, _, _, _, _, _)
Substeps(points, cur, steering, step, num_steps, i) ==
    IF i > num_steps
    THEN [points |-> points, cur |-> cur]
    ELSE Pushed(points, Substep(cur, steering, step), steering, step, num_steps, i)
Pushed(points, next, steering, step, num_steps, i) ==
    Substeps(Append(points, world_to_screen_static(next.x, next.y)), next,
             steering, step, num_steps, i + 1)

\* Lines 246-250.
length_for_res(element) ==
    IF element.steering = "Straight"
    THEN element.param
    ELSE Abs(element.param) * TURNING_RADIUS
\* num_steps with the product truncated (as usize without the ceil).
num_steps_truncated(element, resolution) ==
    Max2((length_for_res(element) * resolution) \div ONE, 1)
num_steps_of(element, resolution) ==
    Max2(CeilDiv(length_for_res(element) * resolution, ONE), 1)
\* gear_mult that ignores the gear.
gear_mult_forward(element) == 1
\* Lines 251-254.
gear_mult_of(element) == IF element.gear = "Forward" THEN 1 ELSE -1

\* SegmentSteps whose turns ignore the gear.
SegmentSteps_turns_forward(points, cur, element, num_steps) ==
    Substeps(points, cur, element.steering,
             (element.param \div num_steps)
                 * (IF element.steering = "Straight" THEN gear_mult_of(element) ELSE 1),
             num_steps, 1)

\* Lines 256-289 for one element of num_steps substeps.
SegmentSteps(points, cur, element, num_steps) ==
    Substeps(points, cur, element.steering,
             (element.param \div num_steps) * gear_mult_of(element), num_steps, 1)

\* The body of "for element in path" for one element.
Segment(points, cur, element, resolution) ==
    \* param < 1e-10: the least positive fixed-point number is above 1e-10
    IF element.param <= 0
    THEN [points |-> points, cur |-> cur]
    ELSE SegmentSteps(points, cur, element, num_steps_of(element, resolution))

\* The outer loop, from element k on.
RECURSIVE Segments(_, _, _, _)
RECURSIVE AfterSegment(_, _, _, _)
Segments(r, path, resolution, k) ==
    IF k > Len(path)
    THEN r
    ELSE AfterSegment(Segment(r.points, r.cur, path[k], resolution),
                      path, resolution, k)
AfterSegment(r, path, resolution, k) == Segments(r, path, resolution, k + 1)

\* Lines 235-237.
StartRunning(start_pose) ==
    Running(start_pose.x, start_pose.y,
            normalize_angle_rad(to_radians(start_pose.theta_degree)))

Interpolate(start_pose, path, resolution) ==
    IF path = <<>>
    THEN [points |-> <<>>, cur |-> StartRunning(start_pose)]
    ELSE Segments([points |-> <<world_to_screen_static(start_pose.x, start_pose.y)>>,
                   cur |-> StartRunning(start_pose)],
                  path, resolution, 1)

\* generate_path_points without the early return of lines 230-232.
generate_path_points_no_return(start_pose, end_pose, path, resolution) ==
    Segments([points |-> <<world_to_screen_static(start_pose.x, start_pose.y)>>,
              cur |-> StartRunning(start_pose)],
             path, resolution, 1).points

generate_path_points(start_pose, end_pose, path, resolution) ==
    Interpolate(start_pose, path, resolution).points

(***************************************************************************)
(* State::calculate_selected_path.                                         *)
(***************************************************************************)
\* Lines 188-191.
reflect_calc(p, needs_reflect_calc) ==
    IF needs_reflect_calc THEN Pose(p.x, -p.y, -p.theta_degree) ELSE p

\* Lines 192-199.
timeflip_calc(p, needs_reflect_calc, needs_timeflip_calc) ==
    IF needs_timeflip_calc
    THEN Pose(-p.x, p.y,
              IF needs_reflect_calc THEN p.theta_degree ELSE -p.theta_degree)
    ELSE p

\* The relative pose handed to the path function, lines 181-199.
relative_pose_for(start, end, needs_reflect_calc, needs_timeflip_calc) ==
    timeflip_calc(reflect_calc(change_of_basis(start, end), needs_reflect_calc),
                  needs_reflect_calc, needs_timeflip_calc)

\* Lines 201-202.
path_fn_at(index, rel) == PATH_FNS(index, rel.x, rel.y, rel.theta_degree)

\* Lines 204-209.
transformed(path, needs_reflect_calc, needs_timeflip_calc) ==
    IF needs_reflect_calc
    THEN reflect(IF needs_timeflip_calc THEN timeflip(path) ELSE path)
    ELSE IF needs_timeflip_calc THEN timeflip(path) ELSE path

calculated_path_for(s) ==
    transformed(path_fn_at(s.selected_path_index,
                           relative_pose_for(Unwrap(s.start_pose), Unwrap(s.end_pose),
                                             s.reflect_path, s.timeflip_path)),
                s.reflect_path, s.timeflip_path)

\* Lines 178-179.
cleared(s) == [s EXCEPT !.current_path_points = None, !.current_raw_path = None]

\* Lines 213-217.
store_points(s, calculated_path, points) ==
    IF points # <<>>
    THEN [s EXCEPT !.current_path_points = Some(points),
                   !.current_raw_path = Some(calculated_path)]
    ELSE cleared(s)

\* Lines 211-218.
store_path(s, calculated_path) ==
    IF calculated_path # <<>>
    THEN store_points(s, calculated_path,
                      generate_path_points(Unwrap(s.start_pose), Unwrap(s.end_pose),
                                           calculated_path, PATH_RESOLUTION))
    ELSE cleared(s)

\* calculate_selected_path that clears the buffers only inside the if-let.
calculate_selected_path_late_clear(s) ==
    IF IsSome(s.start_pose) /\ IsSome(s.end_pose)
    THEN store_path(s, calculated_path_for(s))
    ELSE s

calculate_selected_path(s) ==
    IF IsSome(s.start_pose) /\ IsSome(s.end_pose)
    THEN store_path(s, calculated_path_for(s))
    ELSE cleared(s)

(***************************************************************************)
(* The frame loop of main.                                                 *)
(*   state  the editor state (let mut state)                               *)
(*   input  what the input queries answer during the current poll of main: *)
(*          mouse_position(), is_mouse_button_pressed/down/released(Left), *)
(*          is_key_pressed(R).  It is fixed while main runs.  When main    *)
(*          suspends in next_frame().await the frame ends: the per-frame   *)
(*          flags (pressed, released, key_r) are cleared, the pointer      *)
(*          position and the button's being down persist.                  *)
(*   pc     "next_frame": main is suspended at line 682 (or not yet        *)
(*          polled); "loop": main is at the top of the loop body, line 498 *)
(*   iterations  how many iterations of the loop have run on the input of  *)
(*          the current frame (saturating at MaxSpin)                      *)
(*   gpp_args, gpp_ret  the arguments and the result of a call of          *)
(*          generate_path_points made on its own (SpecInterp); None in the *)
(*          editor                                                         *)
(*   gpp_cur   the running pose (current_x, current_y, current_theta_rad)  *)
(*          of that call when it returns; None in the editor               *)
(***************************************************************************)
VARIABLES state, input, pc, iterations, gpp_args, gpp_ret, gpp_cur

vars == <<state, input, pc, iterations, gpp_args, gpp_ret, gpp_cur>>

\* The button flags of a frame in which the button changed n times, given
\* whether it was down at the end of the frame before.
ButtonFlags(was_down, n) ==
    [pressed |-> IF was_down THEN n >= 2 ELSE n >= 1,
     released |-> IF was_down THEN n >= 1 ELSE n >= 2,
     down |-> IF n % 2 = 0 THEN was_down ELSE ~was_down]

Input(mouse, flags, key_r) ==
    [mouse |-> mouse, pressed |-> flags.pressed, down |-> flags.down,
     released |-> flags.released, key_r |-> key_r]

\* The input once the frame has ended.
EndOfFrame(in) == [in EXCEPT !.pressed = FALSE, !.released = FALSE, !.key_r = FALSE]

Init ==
    /\ state = State_new
    /\ input = Input(PointA, ButtonFlags(FALSE, 0), FALSE)
    /\ pc = "next_frame"
    /\ iterations = 0
    /\ gpp_args = None
    /\ gpp_ret = None
    /\ gpp_cur = None

\* The result of a match arm: the state and the local needs_recalculation.
Arm(s, needs_recalculation) == [s |-> s, needs_recalculation |-> needs_recalculation]

\* Lines 529-533, 535-539, 563-567, 569-573: the heading takes the drag's
\* angle when there is one.
set_theta(s, field, angle) ==
    IF IsSome(angle) /\ IsSome(s[field])
    THEN [s EXCEPT ![field] = Some([Unwrap(@) EXCEPT !.theta_degree = Unwrap(angle)])]
    ELSE s
apply_drag_angle(s, field) == set_theta(s, field, calculate_initial_drag_angle(s))

\* Lines 526-528, 560-562: the drag follows the pointer.
update_drag(s, mouse_screen) ==
    IF IsSome(s.drag_state_initial)
    THEN [s EXCEPT !.drag_state_initial =
                       Some([Unwrap(@) EXCEPT !.current_pos = mouse_screen])]
    ELSE s

\* place_pose that creates the pose with the drag left closed.
place_pose_no_drag(s, field, mouse_screen, world, next_state) ==
    [s EXCEPT ![field] = Some(Pose(world[1], world[2], 0)),
              !.app_state = next_state]

\* Lines 512-521, 546-555: the pose is created under the pointer, heading 0,
\* and the drag opened.
place_pose(s, field, mouse_screen, world, next_state) ==
    [s EXCEPT ![field] = Some(Pose(world[1], world[2], 0)),
              !.drag_state_initial =
                  Some([start_pos |-> mouse_screen, current_pos |-> mouse_screen]),
              !.app_state = next_state]

\* AppState::PlacingStart, lines 510-523.
arm_PlacingStart(s, in) ==
    IF in.pressed
    THEN Arm(place_pose(s, "start_pose", in.mouse, screen_to_world(in.mouse),
                        "DefiningStartAngle"), FALSE)
    ELSE Arm(s, FALSE)

\* Lines 535-541: the release commits the start pose.
\* commit_start that leaves the drag open.
commit_start_keep_drag(s) ==
    [s EXCEPT !.app_state = "PlacingEnd"]
commit_start(s) ==
    [s EXCEPT !.drag_state_initial = None, !.app_state = "PlacingEnd"]

\* The arm that commits whenever the button is up, released this frame or not.
arm_DefiningStartAngle_up(s, in) ==
    IF in.down
    THEN Arm(apply_drag_angle(update_drag(s, in.mouse), "start_pose"), FALSE)
    ELSE Arm(commit_start(apply_drag_angle(s, "start_pose")), FALSE)

\* AppState::DefiningStartAngle, lines 524-543.
arm_DefiningStartAngle(s, in) ==
    IF in.down
    THEN Arm(apply_drag_angle(update_drag(s, in.mouse), "start_pose"), FALSE)
    ELSE IF in.released
    THEN Arm(commit_start(apply_drag_angle(s, "start_pose")), FALSE)
    ELSE Arm(s, FALSE)

\* The arm that opens the drag and enters DefiningEndAngle with no end pose.
arm_PlacingEnd_no_pose(s, in) ==
    IF in.pressed
    THEN Arm([s EXCEPT !.drag_state_initial =
                           Some([start_pos |-> in.mouse, current_pos |-> in.mouse]),
                       !.app_state = "DefiningEndAngle"], FALSE)
    ELSE Arm(s, FALSE)

\* AppState::PlacingEnd, lines 544-557.
arm_PlacingEnd(s, in) ==
    IF in.pressed
    THEN Arm(place_pose(s, "end_pose", in.mouse, screen_to_world(in.mouse),
                        "DefiningEndAngle"), FALSE)
    ELSE Arm(s, FALSE)

\* Lines 574-576: the release commits the end pose and computes the path.
enter_displaying(s) == [s EXCEPT !.app_state = "DisplayingPaths"]
commit_end(s) ==
    enter_displaying(calculate_selected_path([s EXCEPT !.drag_state_initial = None]))

\* AppState::DefiningEndAngle, lines 558-578.
arm_DefiningEndAngle(s, in) ==
    IF in.down
    THEN Arm(apply_drag_angle(update_drag(s, in.mouse), "end_pose"), FALSE)
    ELSE IF in.released
    THEN Arm(commit_end(apply_drag_angle(s, "end_pose")), FALSE)
    ELSE Arm(s, FALSE)

\* Rect::new(WINDOW_WIDTH - 150 - 20, 20, 150, 110).contains(mouse_screen).
in_rect(p, left, top, w, h) ==
    p.x >= left /\ p.x < left + w /\ p.y >= top /\ p.y < top + h
mouse_over_ui(mouse_screen) ==
    in_rect(mouse_screen, (WINDOW_WIDTH - 150 - 20) * FX, 20 * FX, 150 * FX, 110 * FX)

\* select_target that tries the bodies before the headlights.
select_target_body_first(s, world) ==
    IF IsSome(s.start_pose) /\ check_body_hit(world, Unwrap(s.start_pose))
    THEN Some("StartBody")
    ELSE IF IsSome(s.end_pose) /\ check_body_hit(world, Unwrap(s.end_pose))
    THEN Some("EndBody")
    ELSE IF IsSome(s.start_pose) /\ check_headlight_hit(world, Unwrap(s.start_pose))
    THEN Some("StartAngle")
    ELSE IF IsSome(s.end_pose) /\ check_headlight_hit(world, Unwrap(s.end_pose))
    THEN Some("EndAngle")
    ELSE None

\* Lines 583-612: the drag target a press selects; None when nothing is hit.
select_target(s, world) ==
    IF IsSome(s.start_pose) /\ check_headlight_hit(world, Unwrap(s.start_pose))
    THEN Some("StartAngle")
    ELSE IF IsSome(s.end_pose) /\ check_headlight_hit(world, Unwrap(s.end_pose))
    THEN Some("EndAngle")
    ELSE IF IsSome(s.start_pose) /\ check_body_hit(world, Unwrap(s.start_pose))
    THEN Some("StartBody")
    ELSE IF IsSome(s.end_pose) /\ check_body_hit(world, Unwrap(s.end_pose))
    THEN Some("EndBody")
    ELSE None

\* dragging_modify is assigned only when a target was hit.
set_target(s, t) == IF IsSome(t) THEN [s EXCEPT !.dragging_modify = t] ELSE s

\* Lines 582-613: a press outside the widgets.
press_target(s, in) ==
    IF in.pressed /\ ~mouse_over_ui(in.mouse)
    THEN set_target(s, select_target(s, screen_to_world(in.mouse)))
    ELSE s

\* Lines 617-630: a body target moves its pose under the pointer.
drag_body(s, field, world) ==
    IF IsSome(s[field])
    THEN Arm([s EXCEPT ![field] = Some([Unwrap(@) EXCEPT !.x = world[1],
                                                         !.y = world[2]])], TRUE)
    ELSE Arm(s, FALSE)

\* Lines 631-650: an angle target turns its pose towards the pointer.
turn_pose(s, field, dx, dy) ==
    \* dx.hypot(dy) > 1e-6: the least positive fixed-point length is above 1e-6
    IF dx # 0 \/ dy # 0
    THEN Arm([s EXCEPT ![field] =
                  Some([Unwrap(@) EXCEPT !.theta_degree = Atan2Deg(dy, dx)])], TRUE)
    ELSE Arm(s, FALSE)
drag_angle(s, field, world) ==
    IF IsSome(s[field])
    THEN turn_pose(s, field, world[1] - Unwrap(s[field]).x, world[2] - Unwrap(s[field]).y)
    ELSE Arm(s, FALSE)

\* Lines 616-651: the match on the target.
drag_target(s, target, world) ==
    CASE target = "StartBody" -> drag_body(s, "start_pose", world)
      [] target = "EndBody" -> drag_body(s, "end_pose", world)
      [] target = "StartAngle" -> drag_angle(s, "start_pose", world)
      [] target = "EndAngle" -> drag_angle(s, "end_pose", world)

\* modify_drag whose release leaves the target held.
modify_drag_no_clear(s, in) ==
    IF IsSome(s.dragging_modify) /\ in.down
    THEN drag_target(s, Unwrap(s.dragging_modify), screen_to_world(in.mouse))
    ELSE Arm(s, FALSE)

\* Lines 614-656.
modify_drag(s, in) ==
    IF IsSome(s.dragging_modify)
    THEN IF in.down
         THEN drag_target(s, Unwrap(s.dragging_modify), screen_to_world(in.mouse))
         ELSE IF in.released
         THEN Arm([s EXCEPT !.dragging_modify = None], TRUE)
         ELSE Arm(s, FALSE)
    ELSE Arm(s, FALSE)

\* AppState::DisplayingPaths, lines 579-657.
arm_DisplayingPaths(s, in) == modify_drag(press_target(s, in), in)

\* The three values the widgets of draw_ui edit.
UiValues ==
    [selected_path_index : 0..MaxIndex, reflect_path : BOOLEAN, timeflip_path : BOOLEAN]

ui_of(s) ==
    [selected_path_index |-> s.selected_path_index,
     reflect_path |-> s.reflect_path,
     timeflip_path |-> s.timeflip_path]

\* draw_ui, lines 463-482: the widgets exist in DisplayingPaths only, and answer
\* a click of this frame on their rectangle by any values; otherwise they write
\* back what they read.
UiOutcomes(s, in) ==
    IF /\ s.app_state = "DisplayingPaths"
       /\ (in.pressed \/ in.released)
       /\ mouse_over_ui(in.mouse)
    THEN UiValues
    ELSE {ui_of(s)}

after_ui(s, ui) ==
    [s EXCEPT !.selected_path_index = ui.selected_path_index,
              !.reflect_path = ui.reflect_path,
              !.timeflip_path = ui.timeflip_path]

\* Lines 670-677.
ui_changed(s, old) ==
    /\ s.app_state = "DisplayingPaths"
    /\ ~(/\ s.selected_path_index = old.selected_path_index
         /\ s.reflect_path = old.reflect_path
         /\ s.timeflip_path = old.timeflip_path)

\* recalculate that looks at the arm's flag only, not at the widgets.
recalculate_flag_only(old, s, needs_recalculation) ==
    IF needs_recalculation THEN calculate_selected_path(s) ELSE s

\* Lines 670-680.
recalculate(old, s, needs_recalculation) ==
    IF needs_recalculation \/ ui_changed(s, old)
    THEN calculate_selected_path(s)
    ELSE s

\* Lines 660-680: after the match, draw_ui and the recalculation.
frame_tail(old, arm, ui) == recalculate(old, after_ui(arm.s, ui), arm.needs_recalculation)

\* next_frame().await returns: the next frame's input has arrived and main is
\* polled again.
NextFrame ==
    /\ pc = "next_frame"
    /\ \E mouse \in MousePoints, n \in 0..MaxEvents, key_r \in BOOLEAN :
           input' = Input(mouse, ButtonFlags(input.down, n), key_r)
    /\ pc' = "loop"
    /\ iterations' = 0
    /\ UNCHANGED <<state, gpp_args, gpp_ret, gpp_cur>>

\* Lines 504-507: R resets and continues, without reaching next_frame().await:
\* the loop body starts again on the same input.
IterReset ==
    /\ pc = "loop"
    /\ input.key_r
    /\ state' = reset(state)
    /\ pc' = "loop"
    /\ iterations' = Min2(iterations + 1, MaxSpin)
    /\ UNCHANGED <<input, gpp_args, gpp_ret, gpp_cur>>

\* One iteration of the loop that runs the match arm and the frame tail and
\* suspends in next_frame().await.
Iterate(arm) ==
    /\ pc = "loop"
    /\ ~input.key_r
    /\ \E ui \in UiOutcomes(arm.s, input) : state' = frame_tail(state, arm, ui)
    /\ pc' = "next_frame"
    /\ input' = EndOfFrame(input)
    /\ iterations' = Min2(iterations + 1, MaxSpin)
    /\ UNCHANGED <<gpp_args, gpp_ret, gpp_cur>>

IterPlacingStart ==
    /\ state.app_state = "PlacingStart"
    /\ Iterate(arm_PlacingStart(state, input))

IterDefiningStartAngle ==
    /\ state.app_state = "DefiningStartAngle"
    /\ Iterate(arm_DefiningStartAngle(state, input))

IterPlacingEnd ==
    /\ state.app_state = "PlacingEnd"
    /\ Iterate(arm_PlacingEnd(state, input))

IterDefiningEndAngle ==
    /\ state.app_state = "DefiningEndAngle"
    /\ Iterate(arm_DefiningEndAngle(state, input))

IterDisplayingPaths ==
    /\ state.app_state = "DisplayingPaths"
    /\ Iterate(arm_DisplayingPaths(state, input))

Next ==
    \/ NextFrame
    \/ IterReset
    \/ IterPlacingStart
    \/ IterDefiningStartAngle
    \/ IterPlacingEnd
    \/ IterDefiningEndAngle
    \/ IterDisplayingPaths

Spec == Init /\ [][Next]_vars

(***************************************************************************)
(* generate_path_points on its own: one call on arguments drawn from       *)
(* bounded sets.                                                           *)
(***************************************************************************)
Steerings == {"Left", "Right", "Straight"}
Gears == {"Forward", "Backwards"}
\* Segment parameters: none, and a quarter of a world unit (or of a radian),
\* which at PATH_RESOLUTION is 7.5 substeps long.
InterpParams == {0, 2500}
InterpElements ==
    {PathElement(st, g, p) : st \in Steerings, g \in Gears, p \in InterpParams}
RECURSIVE PathsOfLen(_)
PathsOfLen(n) ==
    IF n = 0 THEN {<<>>}
    ELSE {Append(path, e) : path \in PathsOfLen(n - 1), e \in InterpElements}
InterpPaths == UNION {PathsOfLen(n) : n \in 0..MaxLen}
InterpPoses == {Pose(0, 0, 0), Pose(ONE, -5000, 90), Pose(-20000, 5000, -53)}
InterpResolutions == {1, PATH_RESOLUTION}
\* Single segments of the length of a quarter turn, at the resolutions that
\* divide it into whole substeps, and a straight run of 5 at resolution 10.
QuarterTurn == PI \div 2
QuarterResolutions == {1, 2, 4, 7, 14, 21, 28}
SingleSegments(param) ==
    {<<PathElement(st, g, param)>> : st \in Steerings, g \in Gears}
InterpArgs ==
    [start_pose : InterpPoses, end_pose : {Pose(0, 0, 0)},
     path : InterpPaths, resolution : InterpResolutions]
    \cup [start_pose : InterpPoses, end_pose : {Pose(0, 0, 0)},
          path : SingleSegments(QuarterTurn), resolution : QuarterResolutions]
    \cup [start_pose : InterpPoses, end_pose : {Pose(0, 0, 0)},
          path : SingleSegments(5 * ONE), resolution : {10}]

InitInterp ==
    /\ state = State_new
    /\ input = Input(PointA, ButtonFlags(FALSE, 0), FALSE)
    /\ pc = "next_frame"
    /\ iterations = 0
    /\ gpp_args \in InterpArgs
    /\ gpp_ret = None
    /\ gpp_cur = None

CallGeneratePathPoints ==
    /\ gpp_ret = None
    /\ gpp_ret' = Some(generate_path_points(gpp_args.start_pose, gpp_args.end_pose,
                                             gpp_args.path, gpp_args.resolution))
    /\ gpp_cur' = Some(Interpolate(gpp_args.start_pose, gpp_args.path,
                                    gpp_args.resolution).cur)
    /\ UNCHANGED <<state, input, pc, iterations, gpp_args>>

NextInterp == CallGeneratePathPoints

SpecInterp == InitInterp /\ [][NextInterp]_vars

(***************************************************************************)
(* Properties of the editor (checked under Spec) and of                    *)
(* generate_path_points (checked under SpecInterp).                        *)
(***************************************************************************)
\* A step of the loop body on a frame whose input does not reset.
Iterating == pc = "loop" /\ ~input.key_r
\* A step of the loop body on a frame whose input resets.
Resetting == pc = "loop" /\ input.key_r
PhaseStep(from, to) == state.app_state = from /\ state'.app_state = to

\* C1: the editor starts in PlacingStart; apart from reset the phase changes
\* only PlacingStart -> DefiningStartAngle on a press, -> PlacingEnd on a
\* release, -> DefiningEndAngle on a press, -> DisplayingPaths on a release;
\* and in DisplayingPaths the phase stays DisplayingPaths until a reset.
C1_PhaseChain ==
    /\ state.app_state = "PlacingStart"
    /\ [][/\ state'.app_state # state.app_state =>
               \/ Resetting /\ state'.app_state = "PlacingStart"
               \/ Iterating /\ input.pressed
                            /\ PhaseStep("PlacingStart", "DefiningStartAngle")
               \/ Iterating /\ input.released
                            /\ PhaseStep("DefiningStartAngle", "PlacingEnd")
               \/ Iterating /\ input.pressed
                            /\ PhaseStep("PlacingEnd", "DefiningEndAngle")
               \/ Iterating /\ input.released
                            /\ PhaseStep("DefiningEndAngle", "DisplayingPaths")
          /\ (state.app_state = "DisplayingPaths" /\ ~Resetting) =>
               state'.app_state = "DisplayingPaths"]_vars

\* The chain has been walked to its end and a drag is going on there.
C1_Witness ==
    /\ pc = "next_frame"
    /\ state.app_state = "DisplayingPaths"
    /\ input.down
    /\ IsSome(state.dragging_modify)

ClearedState(s) ==
    /\ s.app_state = "PlacingStart"
    /\ s.start_pose = None
    /\ s.end_pose = None
    /\ s.drag_state_initial = None
    /\ s.dragging_modify = None
    /\ s.current_path_points = None
    /\ s.current_raw_path = None

\* C2: an iteration on a frame in which the reset key is pressed leaves the
\* editor in PlacingStart with both poses, both drags and both path buffers
\* None, whatever the state before and whatever the pointer did in that frame.
C2_ResetClears == [][Resetting => ClearedState(state')]_vars

\* The reset has run on a frame that also delivered a press and a new pointer
\* position, and the editor is cleared.
C2_Witness ==
    /\ pc = "loop"
    /\ iterations >= 1
    /\ input.key_r
    /\ input.pressed
    /\ input.mouse = PointD
    /\ ClearedState(state)

\* C3: every iteration of the loop body, one on a reset frame included, ends in
\* the frame yield next_frame().await; none is followed by another iteration
\* on the same frame's input.
C3_IterationReachesYield == [][pc = "loop" => pc' = "next_frame"]_vars

TargetPriority == <<"StartAngle", "EndAngle", "StartBody", "EndBody">>
HitTest(target, s, world) ==
    CASE target = "StartAngle" -> check_headlight_hit(world, Unwrap(s.start_pose))
      [] target = "EndAngle" -> check_headlight_hit(world, Unwrap(s.end_pose))
      [] target = "StartBody" -> check_body_hit(world, Unwrap(s.start_pose))
      [] target = "EndBody" -> check_body_hit(world, Unwrap(s.end_pose))
Succeeding(s, world) ==
    {i \in 1..Len(TargetPriority) : HitTest(TargetPriority[i], s, world)}
FirstOf(set) == CHOOSE i \in set : \A j \in set : i <= j
TargetAfterPress(old, set) ==
    IF set = {} THEN old ELSE Some(TargetPriority[FirstOf(set)])

\* C4: a press in DisplayingPaths outside the widget rectangle sets the drag
\* target to the first of StartAngle, EndAngle, StartBody, EndBody whose hit
\* test succeeds at the pressed world point, and sets none when none succeeds
\* (with the button still down at the end of the frame, so that the target is
\* not dropped again by the release).
C4_TargetPriority ==
    [][(/\ Iterating
        /\ state.app_state = "DisplayingPaths"
        /\ input.pressed
        /\ input.down
        /\ ~mouse_over_ui(input.mouse)) =>
            state'.dragging_modify =
                TargetAfterPress(state.dragging_modify,
                                 Succeeding(state, screen_to_world(input.mouse)))]_vars

\* The end pose's headlight was chosen where the start pose's body is hit too.
C4_Witness ==
    /\ pc = "next_frame"
    /\ state.app_state = "DisplayingPaths"
    /\ input.down
    /\ state.dragging_modify = Some("EndAngle")
    /\ HitTest("EndAngle", state, screen_to_world(input.mouse))
    /\ HitTest("StartBody", state, screen_to_world(input.mouse))
    /\ ~HitTest("StartAngle", state, screen_to_world(input.mouse))

\* C5: at the end of every frame in DisplayingPaths the two path buffers are
\* what calculate_selected_path computes from the current poses, path index,
\* reflect flag and time-flip flag.
C5_BuffersCurrent ==
    (pc = "next_frame" /\ state.app_state = "DisplayingPaths") =>
        /\ state.current_path_points = calculate_selected_path(state).current_path_points
        /\ state.current_raw_path = calculate_selected_path(state).current_raw_path

\* A path is displayed after the widgets and a pose were changed.
C5_Witness ==
    /\ pc = "next_frame"
    /\ state.app_state = "DisplayingPaths"
    /\ state.selected_path_index = 1
    /\ state.reflect_path
    /\ IsSome(state.current_path_points)
    /\ Len(Unwrap(state.current_path_points)) > 1
    /\ state.dragging_modify = Some("StartBody")
    /\ input.down

PlacedBy(s, field, mouse_screen) ==
    /\ IsSome(s[field])
    /\ world_to_screen_static(Unwrap(s[field]).x, Unwrap(s[field]).y) = mouse_screen
    /\ Unwrap(s[field]).theta_degree = 0
    /\ s.drag_state_initial =
           Some([start_pos |-> mouse_screen, current_pos |-> mouse_screen])

\* C6: a press in PlacingStart (PlacingEnd) creates the start (end) pose at
\* the world point of the pressed frame point with heading 0, opens the drag
\* with start_pos = current_pos = that frame point and moves to
\* DefiningStartAngle (DefiningEndAngle); the press in PlacingEnd leaves the
\* start pose as it was.
C6_PressPlacesPose ==
    [][/\ (Iterating /\ input.pressed /\ state.app_state = "PlacingStart") =>
            /\ state'.app_state = "DefiningStartAngle"
            /\ PlacedBy(state', "start_pose", input.mouse)
       /\ (Iterating /\ input.pressed /\ state.app_state = "PlacingEnd") =>
            /\ state'.app_state = "DefiningEndAngle"
            /\ PlacedBy(state', "end_pose", input.mouse)
            /\ state'.start_pose = state.start_pose]_vars

\* The end pose has just been placed next to a start pose that was turned.
C6_Witness ==
    /\ pc = "next_frame"
    /\ state.app_state = "DefiningEndAngle"
    /\ PlacedBy(state, "end_pose", input.mouse)
    /\ IsSome(state.start_pose)
    /\ Unwrap(state.start_pose).theta_degree # 0

DefiningPhases == {"DefiningStartAngle", "DefiningEndAngle"}
DefinedField(s) == IF s.app_state = "DefiningStartAngle" THEN "start_pose" ELSE "end_pose"
Distance2(p, q) == (p.x - q.x) * (p.x - q.x) + (p.y - q.y) * (p.y - q.y)
Threshold2 == (5 * FX) * (5 * FX)
DragDistance2(s, mouse_screen) == Distance2(Unwrap(s.drag_state_initial).start_pos, mouse_screen)
HeadingOf(s, field) == Unwrap(s[field]).theta_degree

\* C7: in DefiningStartAngle and DefiningEndAngle the heading of the pose
\* being defined changes in a frame only if the frame-space distance from the
\* drag's start to the pointer is strictly more than 5 frame units (and then
\* with the button down); otherwise it is left as it was, and a release still
\* advances the phase.
C7_DragThreshold ==
    [][(Iterating /\ state.app_state \in DefiningPhases) =>
          /\ HeadingOf(state', DefinedField(state)) # HeadingOf(state, DefinedField(state)) =>
                 input.down /\ DragDistance2(state, input.mouse) > Threshold2
          /\ (input.down /\ DragDistance2(state, input.mouse) > Threshold2) =>
                 HeadingOf(state', DefinedField(state)) =
                     -Atan2Deg(input.mouse.y - Unwrap(state.drag_state_initial).start_pos.y,
                               input.mouse.x - Unwrap(state.drag_state_initial).start_pos.x)
          /\ (~input.down /\ input.released) =>
                 state'.app_state = IF state.app_state = "DefiningStartAngle"
                                    THEN "PlacingEnd" ELSE "DisplayingPaths"]_vars

\* The pointer was dragged to exactly 5 frame units from the drag's start and
\* the heading is still 0.
C7_Witness ==
    /\ pc = "next_frame"
    /\ state.app_state = "DefiningStartAngle"
    /\ input.down
    /\ state.drag_state_initial = Some([start_pos |-> PointA, current_pos |-> PointB])
    /\ Distance2(PointA, PointB) = Threshold2
    /\ HeadingOf(state, "start_pose") = 0

BuffersNone(s) == s.current_path_points = None /\ s.current_raw_path = None
WithoutPoses ==
    {[state EXCEPT !.start_pose = None],
     [state EXCEPT !.end_pose = None],
     [state EXCEPT !.start_pose = None, !.end_pose = None]}

\* C8: a path buffer is Some only if both poses are Some, and
\* calculate_selected_path on a state that lacks a pose leaves both buffers
\* None (whatever they held) and never reaches the path function.
C8_BuffersNeedBothPoses ==
    /\ (IsSome(state.current_path_points) \/ IsSome(state.current_raw_path)) =>
           (IsSome(state.start_pose) /\ IsSome(state.end_pose))
    /\ \A s \in WithoutPoses : BuffersNone(calculate_selected_path(s))

\* Both buffers are filled, so that the calculation without a pose has
\* something to clear.
C8_Witness ==
    /\ IsSome(state.current_path_points)
    /\ IsSome(state.current_raw_path)
    /\ IsSome(state.start_pose)
    /\ IsSome(state.end_pose)

\* A path every segment of which is below the epsilon (the empty path too).
Degenerate(path) == \A i \in 1..Len(path) : path[i].param <= 0

\* C9: when the path computed for the current inputs is degenerate, both
\* buffers are None after the calculation, and current_path_points never
\* holds an empty sequence.
C9_DegenerateDropped ==
    /\ (/\ pc = "next_frame"
        /\ state.app_state = "DisplayingPaths"
        /\ Degenerate(calculated_path_for(state))) => BuffersNone(state)
    /\ state.current_path_points # Some(<<>>)

\* C10: generate_path_points of an empty path is the empty sequence, for every
\* start pose and resolution.
C10_EmptyPathNoPoints ==
    (IsSome(gpp_ret) /\ gpp_args.path = <<>>) => Unwrap(gpp_ret) = <<>>

\* The call was made on an empty path from a pose away from the origin.
C10_Witness ==
    /\ IsSome(gpp_ret)
    /\ gpp_args.path = <<>>
    /\ gpp_args.start_pose = Pose(ONE, -5000, 90)
    /\ gpp_args.resolution = PATH_RESOLUTION

\* The arguments and the result of the call of generate_path_points.
Called == IsSome(gpp_ret)
StartPoint == world_to_screen_static(gpp_args.start_pose.x, gpp_args.start_pose.y)
PointsOf(path) ==
    generate_path_points(gpp_args.start_pose, gpp_args.end_pose, path, gpp_args.resolution)
FinalOf(path) == Interpolate(gpp_args.start_pose, path, gpp_args.resolution).cur

ArcLength(element) ==
    IF element.steering = "Straight" THEN element.param
    ELSE element.param * TURNING_RADIUS
ExpectedSubsteps(element, resolution) ==
    IF element.param <= 0 THEN 0
    ELSE Max2(CeilDiv(ArcLength(element) * resolution, ONE), 1)
RECURSIVE SumSubsteps(_, _, _)
SumSubsteps(path, resolution, k) ==
    IF k > Len(path) THEN 0
    ELSE ExpectedSubsteps(path[k], resolution) + SumSubsteps(path, resolution, k + 1)
IsPrefix(short, long) ==
    Len(short) <= Len(long) /\ SubSeq(long, 1, Len(short)) = short

\* C11: for a non-empty path the points begin with the frame projection of
\* the start pose and number 1 + the sum, over the segments not below the
\* epsilon, of max(1, ceil(arc_length * resolution)); they are appended in
\* segment order: the points of the path without its last segment are a
\* prefix, followed by that segment's substeps.
C11_PointCount ==
    (Called /\ gpp_args.path # <<>>) =>
        /\ Unwrap(gpp_ret)[1] = StartPoint
        /\ Len(Unwrap(gpp_ret)) = 1 + SumSubsteps(gpp_args.path, gpp_args.resolution, 1)
        /\ Len(gpp_args.path) >= 2 =>
             /\ IsPrefix(PointsOf(SubSeq(gpp_args.path, 1, Len(gpp_args.path) - 1)),
                         Unwrap(gpp_ret))
             /\ Len(Unwrap(gpp_ret)) =
                    Len(PointsOf(SubSeq(gpp_args.path, 1, Len(gpp_args.path) - 1)))
                    + ExpectedSubsteps(gpp_args.path[Len(gpp_args.path)],
                                       gpp_args.resolution)

\* Two segments of 7.5 substeps each were interpolated into 1 + 8 + 8 points.
C11_Witness ==
    /\ Called
    /\ Len(gpp_args.path) = 2
    /\ gpp_args.path[1].param = 2500
    /\ gpp_args.path[2].param = 2500
    /\ gpp_args.path[1].steering = "Left"
    /\ gpp_args.path[2].steering = "Straight"
    /\ gpp_args.resolution = PATH_RESOLUTION
    /\ Len(Unwrap(gpp_ret)) = 17

NotInert(element) == element.param > 0
WithoutInert(path) == SelectSeq(path, NotInert)

\* C12: a segment below the epsilon appends no point and leaves the running
\* pose as it is: the path without such segments interpolates to the same
\* points and the same final running pose.
C12_InertSegments ==
    Called =>
        /\ Unwrap(gpp_ret) = PointsOf(WithoutInert(gpp_args.path))
        /\ Unwrap(gpp_cur) = FinalOf(WithoutInert(gpp_args.path))

\* The call interpolated the single segment <<steering, gear, param > 0>>.
SingleCall(steering, gear) ==
    /\ Called
    /\ Len(gpp_args.path) = 1
    /\ gpp_args.path[1].steering = steering
    /\ gpp_args.path[1].gear = gear
    /\ gpp_args.path[1].param > 0
StartTheta == normalize_angle_rad(to_radians(gpp_args.start_pose.theta_degree))
Substeps1 == Len(Unwrap(gpp_ret)) - 1
\* Fixed-point rounding: param / num_steps and each product round by at most
\* one unit of 1/ONE, so a sum over the substeps is within two units per
\* substep of the exact value.
Near(a, b, substeps) == Abs(a - b) <= 2 * substeps
LastPoint == Unwrap(gpp_ret)[Len(Unwrap(gpp_ret))]

\* C13: a single Straight, Forward segment of param d from (x, y, theta) ends
\* at (x + d cos theta, y + d sin theta), up to rounding, with the heading
\* unchanged, and the last point is the frame projection of that end; from
\* (0, 0, 0 deg) with param 5 at resolution 10 the end is exactly (5, 0) with
\* heading 0.
C13_StraightRun ==
    SingleCall("Straight", "Forward") =>
        /\ Unwrap(gpp_cur).theta = StartTheta
        /\ Near(Unwrap(gpp_cur).x,
                gpp_args.start_pose.x + MulFix(gpp_args.path[1].param, Cos(StartTheta)),
                Substeps1)
        /\ Near(Unwrap(gpp_cur).y,
                gpp_args.start_pose.y + MulFix(gpp_args.path[1].param, Sin(StartTheta)),
                Substeps1)
        /\ LastPoint = world_to_screen_static(Unwrap(gpp_cur).x, Unwrap(gpp_cur).y)
        /\ (/\ gpp_args.start_pose = Pose(0, 0, 0)
            /\ gpp_args.path[1].param = 5 * ONE
            /\ gpp_args.resolution = 10) =>
               /\ Unwrap(gpp_cur) = Running(5 * ONE, 0, 0)
               /\ LastPoint = world_to_screen_static(5 * ONE, 0)
               /\ Substeps1 = 50

\* The straight run of 5 from the origin at resolution 10 was interpolated.
C13_Witness ==
    /\ SingleCall("Straight", "Forward")
    /\ gpp_args.start_pose = Pose(0, 0, 0)
    /\ gpp_args.path[1].param = 5 * ONE
    /\ gpp_args.resolution = 10
    /\ Unwrap(gpp_cur).x = 5 * ONE

\* C14: a single Left, Forward segment of angle a at unit turning radius from
\* (x, y, theta) ends at the heading theta + a (up to the rounding of
\* a / num_steps) and at (x + sin h - sin theta, y + cos theta - cos h) for
\* the heading h reached, whatever the number of substeps: the chords
\* telescope.  A quarter turn, at every resolution that divides it into whole
\* substeps, ends at heading theta + pi/2 exactly; from (0, 0, 0 deg) at
\* (1, 1) with heading 90 deg.
C14_LeftTurn ==
    SingleCall("Left", "Forward") =>
        /\ Abs(Unwrap(gpp_cur).theta
                 - normalize_angle_rad(StartTheta + gpp_args.path[1].param)) <= Substeps1
        /\ Unwrap(gpp_cur).x =
               gpp_args.start_pose.x
                 + TURNING_RADIUS * (Sin(Unwrap(gpp_cur).theta) - Sin(StartTheta))
        /\ Unwrap(gpp_cur).y =
               gpp_args.start_pose.y
                 + TURNING_RADIUS * (Cos(StartTheta) - Cos(Unwrap(gpp_cur).theta))
        /\ LastPoint = world_to_screen_static(Unwrap(gpp_cur).x, Unwrap(gpp_cur).y)
        /\ gpp_args.path[1].param = QuarterTurn =>
               Unwrap(gpp_cur).theta = normalize_angle_rad(StartTheta + QuarterTurn)
        /\ (gpp_args.path[1].param = QuarterTurn /\ gpp_args.start_pose = Pose(0, 0, 0)) =>
               Unwrap(gpp_cur) = Running(ONE, ONE, to_radians(90))

\* The quarter turn from the origin was interpolated in 44 substeps.
C14_Witness ==
    /\ SingleCall("Left", "Forward")
    /\ gpp_args.start_pose = Pose(0, 0, 0)
    /\ gpp_args.path[1].param = QuarterTurn
    /\ gpp_args.resolution = 28
    /\ Substeps1 = 44
    /\ Unwrap(gpp_cur).x = ONE

\* The running pose reached by the called segment driven Forward.
ForwardFinal == FinalOf(<<[gpp_args.path[1] EXCEPT !.gear = "Forward"]>>)
HeadingChange(final) == (final.theta - StartTheta) % (2 * PI)

\* C15: the gear sign multiplies the per-step parameter: a Straight segment
\* driven Backwards is displaced by the exact negation of its Forward
\* displacement with the heading unchanged, and a Left or Right segment
\* driven Backwards changes the heading by the negation of its Forward
\* heading change.
C15_GearSign ==
    /\ SingleCall("Straight", "Backwards") =>
         /\ Unwrap(gpp_cur).x - gpp_args.start_pose.x
                = -(ForwardFinal.x - gpp_args.start_pose.x)
         /\ Unwrap(gpp_cur).y - gpp_args.start_pose.y
                = -(ForwardFinal.y - gpp_args.start_pose.y)
         /\ Unwrap(gpp_cur).theta = StartTheta
         /\ ForwardFinal.theta = StartTheta
    /\ (SingleCall("Left", "Backwards") \/ SingleCall("Right", "Backwards")) =>
         /\ HeadingChange(Unwrap(gpp_cur)) = (-HeadingChange(ForwardFinal)) % (2 * PI)
         /\ HeadingChange(Unwrap(gpp_cur)) # 0

\* The straight run of 5 from the origin was driven Backwards to (-5, 0).
C15_Witness ==
    /\ SingleCall("Straight", "Backwards")
    /\ gpp_args.start_pose = Pose(0, 0, 0)
    /\ gpp_args.path[1].param = 5 * ONE
    /\ Unwrap(gpp_cur) = Running(-(5 * ONE), 0, 0)

FrameCenter == vec2(Px(WINDOW_WIDTH) \div 2, Px(WINDOW_HEIGHT) \div 2)
\* The frame points the editor holds: the pointer and the interpolated points.
FramePointsHeld ==
    {input.mouse}
      \cup (IF IsSome(state.current_path_points)
            THEN {Unwrap(state.current_path_points)[i] :
                      i \in 1..Len(Unwrap(state.current_path_points))}
            ELSE {})
\* The world points the editor holds: the positions of the poses.
WorldPointsHeld ==
    {<<Unwrap(o).x, Unwrap(o).y>> : o \in {state.start_pose, state.end_pose} \ {None}}
FrameRoundTrip(p) ==
    world_to_screen_static(screen_to_world(p)[1], screen_to_world(p)[2]) = p
WorldRoundTrip(w) ==
    screen_to_world(world_to_screen_static(w[1], w[2])) = w
YFlipped(w) ==
    /\ world_to_screen_static(w[1], w[2] + ONE).y < world_to_screen_static(w[1], w[2]).y
    /\ world_to_screen_static(w[1] + ONE, w[2]).x > world_to_screen_static(w[1], w[2]).x

\* C16: screen_to_world and world_to_screen_static are inverses of each other
\* on every frame point and every world point the editor holds; the world
\* origin is the frame center, and the frame Y decreases as the world Y
\* increases.
C16_TransformInverse ==
    /\ \A p \in FramePointsHeld : FrameRoundTrip(p)
    /\ \A w \in WorldPointsHeld : WorldRoundTrip(w) /\ YFlipped(w)
    /\ world_to_screen_static(0, 0) = FrameCenter
    /\ screen_to_world(FrameCenter) = <<0, 0>>

\* Two poses at different points and a drawn path of several points are held.
C16_Witness ==
    /\ pc = "next_frame"
    /\ Cardinality(WorldPointsHeld) = 2
    /\ Cardinality(FramePointsHeld) >= 4
    /\ screen_to_world(input.mouse) \in WorldPointsHeld

PosesHeld == {Unwrap(o) : o \in {state.start_pose, state.end_pose} \ {None}}
Center(pose) == <<pose.x, pose.y>>

\* C17: for every pose the editor holds at the end of a frame (the poses held
\* while the loop body runs are those of the frame before), its center is a
\* body hit and not a headlight hit, and its headlight position (the center
\* moved by half the car length along the heading) is a headlight hit.
C17_HitContainment ==
    pc = "next_frame" =>
        \A pose \in PosesHeld :
            /\ check_body_hit(Center(pose), pose)
            /\ ~check_headlight_hit(Center(pose), pose)
            /\ check_headlight_hit(get_headlight_world_pos(pose), pose)

\* A press on the center of the turned start pose has taken its body, not its
\* headlight, as the drag target.
C17_Witness ==
    /\ pc = "next_frame"
    /\ state.app_state = "DisplayingPaths"
    /\ state.dragging_modify = Some("StartBody")
    /\ input.down
    /\ screen_to_world(input.mouse) = Center(Unwrap(state.start_pose))
    /\ Unwrap(state.start_pose).theta_degree = 127

\* A frame of DisplayingPaths at the end of which the button is down and a
\* drag target is held: the frame in which lines 616-651 ran for that target.
DragFrame ==
    /\ Iterating
    /\ state.app_state = "DisplayingPaths"
    /\ input.down
    /\ IsSome(state'.dragging_modify)
TargetField(target) ==
    IF target \in {"StartBody", "StartAngle"} THEN "start_pose" ELSE "end_pose"
OtherField(target) ==
    IF target \in {"StartBody", "StartAngle"} THEN "end_pose" ELSE "start_pose"
\* The vector from the pose center to the pointer, in world coordinates.
ToPointer(pose, mouse_screen) ==
    <<screen_to_world(mouse_screen)[1] - pose.x, screen_to_world(mouse_screen)[2] - pose.y>>
BodyDragged(old, new, mouse_screen) ==
    /\ <<new.x, new.y>> = screen_to_world(mouse_screen)
    /\ new.theta_degree = old.theta_degree
AngleDragged(old, new, mouse_screen) ==
    /\ <<new.x, new.y>> = <<old.x, old.y>>
    /\ new.theta_degree =
           IF ToPointer(old, mouse_screen) = <<0, 0>> THEN old.theta_degree
           ELSE Atan2Deg(ToPointer(old, mouse_screen)[2], ToPointer(old, mouse_screen)[1])
\* What the frame does to the poses for the target held.
PoseEffect(target) ==
    /\ IF target \in {"StartBody", "EndBody"}
       THEN BodyDragged(Unwrap(state[TargetField(target)]),
                        Unwrap(state'[TargetField(target)]), input.mouse)
       ELSE AngleDragged(Unwrap(state[TargetField(target)]),
                         Unwrap(state'[TargetField(target)]), input.mouse)
    /\ state'[OtherField(target)] = state[OtherField(target)]
    /\ state'.app_state = "DisplayingPaths"

\* C18: in a frame of DisplayingPaths with a drag target held, a body target
\* sets its pose's position to the pointer's world position and keeps its
\* heading, an angle target sets its pose's heading to the world angle of the
\* vector from the center to the pointer (not for the zero vector) and keeps
\* its position; the other pose, the selected index and both flags are
\* unchanged.
C18_DragFrameEffect ==
    [][DragFrame =>
          /\ PoseEffect(Unwrap(state'.dragging_modify))
          /\ ui_of(state') = ui_of(state)]_vars

\* The part of C18 about the poses, with the widgets set aside: the selected
\* index and the flags change in such a frame only when the button was
\* released and pressed again inside the frame with the pointer on the widget
\* rectangle.
C18_PoseEffectOnly ==
    [][DragFrame =>
          /\ PoseEffect(Unwrap(state'.dragging_modify))
          /\ ui_of(state') # ui_of(state) =>
                 /\ mouse_over_ui(input.mouse)
                 /\ input.pressed
                 /\ input.released]_vars

\* The start pose's heading was turned towards the pointer by an angle drag
\* that has taken the pointer onto the widget rectangle, where no press
\* selects a target.
C18_PoseEffectReached ==
    /\ pc = "next_frame"
    /\ state.app_state = "DisplayingPaths"
    /\ input.down
    /\ state.dragging_modify = Some("StartAngle")
    /\ ToPointer(Unwrap(state.start_pose), input.mouse) # <<0, 0>>
    /\ Unwrap(state.start_pose).theta_degree =
           Atan2Deg(ToPointer(Unwrap(state.start_pose), input.mouse)[2],
                    ToPointer(Unwrap(state.start_pose), input.mouse)[1])
    /\ input.mouse = PointC

\* A frame of DisplayingPaths in which the button went down with the pointer on
\* the widget rectangle.
PressOnUi ==
    /\ Iterating
    /\ state.app_state = "DisplayingPaths"
    /\ input.pressed
    /\ mouse_over_ui(input.mouse)
\* The frame selects no drag target: the target is the one held before, or none.
NoTargetSelected == state'.dragging_modify \in {state.dragging_modify, None}
PosesKept ==
    /\ state'.start_pose = state.start_pose
    /\ state'.end_pose = state.end_pose

\* C19: a press in DisplayingPaths with the pointer inside the widget rectangle
\* selects no drag target and changes neither pose, whatever the pressed point
\* hits.
C19_PressOnUiIgnored ==
    [][PressOnUi => NoTargetSelected /\ PosesKept]_vars

\* The part of C19 that the press branch alone decides: no target is selected,
\* and the poses are kept when no target was held before the frame.
C19_PressOnUiSelectsNothing ==
    [][PressOnUi =>
          /\ NoTargetSelected
          /\ state.dragging_modify = None => PosesKept]_vars

\* A press on the widget rectangle was handled with no target held, at a point
\* that hits a pose, and has left no target.
C19_PressOnUiReached ==
    /\ pc = "next_frame"
    /\ state.app_state = "DisplayingPaths"
    /\ input.down
    /\ mouse_over_ui(input.mouse)
    /\ state.dragging_modify = None
    /\ IsSome(select_target(state, screen_to_world(input.mouse)))

DragOpen == IsSome(state.drag_state_initial)
\* The step of a frame whose press places a pose.
PlacingPress ==
    /\ Iterating
    /\ state.app_state \in {"PlacingStart", "PlacingEnd"}
    /\ input.pressed
\* The step of a frame whose release leaves the angle-definition phase.
DefiningRelease ==
    /\ Iterating
    /\ state.app_state \in DefiningPhases
    /\ input.released
    /\ ~input.down
    /\ state'.app_state \notin DefiningPhases

\* C20: at the end of every frame drag_state_initial is Some exactly when the
\* phase is DefiningStartAngle or DefiningEndAngle; it becomes Some only in a
\* frame whose press places a pose, and becomes None only in a frame whose
\* release leaves the angle-definition phase or in a reset.
C20_DragOpenIffDefining ==
    /\ [](pc = "next_frame" => (DragOpen <=> state.app_state \in DefiningPhases))
    /\ [][/\ (~DragOpen /\ DragOpen') => PlacingPress
          /\ (DragOpen /\ ~DragOpen') => (DefiningRelease \/ Resetting)]_vars

\* A frame has ended in PlacingEnd: the release that committed the start pose
\* has destroyed the drag opened by the press that placed it.
C20_Witness ==
    /\ pc = "next_frame"
    /\ state.app_state = "PlacingEnd"
    /\ IsSome(state.start_pose)
    /\ ~DragOpen

TargetHeld == IsSome(state.dragging_modify)

C22_PosePresence ==
    /\ state.start_pose = None <=> state.app_state = "PlacingStart"
    /\ state.end_pose = None <=>
           state.app_state \in {"PlacingStart", "DefiningStartAngle", "PlacingEnd"}

\* Both poses are present in DefiningEndAngle, entered by the press that
\* placed the end pose; its drag has already turned the pose.
C22_Witness ==
    /\ state.app_state = "DefiningEndAngle"
    /\ IsSome(state.start_pose)
    /\ IsSome(state.end_pose)
    /\ IsSome(state.drag_state_initial)
    /\ Unwrap(state.end_pose).theta_degree # 0

\* C23: at the end of every frame in which the button is not held the phase is
\* neither DefiningStartAngle nor DefiningEndAngle.
C23_NoDefiningWithButtonUp ==
    pc = "next_frame" /\ ~input.down => state.app_state \notin DefiningPhases

\* What holds instead: an angle-definition phase ends a frame with the button
\* up only with its drag still at the point of the placing press.
C23_DefiningWithButtonUpUndragged ==
    pc = "next_frame" /\ ~input.down /\ state.app_state \in DefiningPhases =>
        /\ IsSome(state.drag_state_initial)
        /\ Unwrap(state.drag_state_initial).current_pos =
               Unwrap(state.drag_state_initial).start_pos

\* The single-flag transforms of a relative pose and their composition.
ReflectPose(p) == Pose(p.x, -p.y, -p.theta_degree)
TimeflipPose(p) == Pose(-p.x, p.y, -p.theta_degree)
ComposedPose(p, reflect_flag, timeflip_flag) ==
    CASE reflect_flag /\ timeflip_flag -> TimeflipPose(ReflectPose(p))
      [] reflect_flag /\ ~timeflip_flag -> ReflectPose(p)
      [] ~reflect_flag /\ timeflip_flag -> TimeflipPose(p)
      [] OTHER -> p
\* The returned path time-flipped if the time-flip flag is set, then reflected
\* if the reflect flag is set.
FlippedBack(path, reflect_flag, timeflip_flag) ==
    IF reflect_flag
    THEN reflect(IF timeflip_flag THEN timeflip(path) ELSE path)
    ELSE IF timeflip_flag THEN timeflip(path) ELSE path
BothPoses == IsSome(state.start_pose) /\ IsSome(state.end_pose)
RelativePose == change_of_basis(Unwrap(state.start_pose), Unwrap(state.end_pose))
HandedPose ==
    relative_pose_for(Unwrap(state.start_pose), Unwrap(state.end_pose),
                      state.reflect_path, state.timeflip_path)

\* C24: for the poses and flags of the editor, the relative pose handed to the
\* path function is the composition of the single-flag transforms (reflect:
\* (x, -y, -theta); time-flip: (-x, y, -theta); both: (-x, -y, theta)), and the
\* path returned for it is time-flipped and reflected according to the flags.
C24_ComposedTransforms ==
    BothPoses =>
        /\ HandedPose = ComposedPose(RelativePose, state.reflect_path, state.timeflip_path)
        /\ calculated_path_for(state) =
               FlippedBack(path_fn_at(state.selected_path_index,
                                      ComposedPose(RelativePose, state.reflect_path,
                                                   state.timeflip_path)),
                           state.reflect_path, state.timeflip_path)

\* What the code hands over with both flags set: (-x, -y, -theta); with at
\* most one flag set it is the single-flag transform.
C24_BothFlagsKeepNegatedHeading ==
    BothPoses =>
        HandedPose =
            IF state.reflect_path /\ state.timeflip_path
            THEN Pose(-RelativePose.x, -RelativePose.y, -RelativePose.theta_degree)
            ELSE ComposedPose(RelativePose, state.reflect_path, state.timeflip_path)

\* The call interpolated a segment of positive param and then the same segment
\* in the other gear.
ThereAndBack ==
    /\ Called
    /\ Len(gpp_args.path) = 2
    /\ gpp_args.path[1].param > 0
    /\ gpp_args.path[2].steering = gpp_args.path[1].steering
    /\ gpp_args.path[2].param = gpp_args.path[1].param
    /\ gpp_args.path[2].gear # gpp_args.path[1].gear
\* The point pushed when the first segment was done.
TurningPoint == Unwrap(gpp_ret)[(Len(Unwrap(gpp_ret)) + 1) \div 2]

\* C25: the path <<s, s in the other gear>>, for s Straight, Left or Right in
\* either gear, ends at the start pose: same position, same heading, and the
\* last point pushed is the first one; both segments take the same number of
\* substeps.
C25_GearReversalUndoes ==
    ThereAndBack =>
        /\ Unwrap(gpp_cur) = StartRunning(gpp_args.start_pose)
        /\ LastPoint = StartPoint
        /\ Len(Unwrap(gpp_ret)) % 2 = 1

\* A left turn driven backwards and then forwards from a pose off the origin
\* with a heading that is not 0: the turning point is away from the start.
C25_Witness ==
    /\ ThereAndBack
    /\ gpp_args.path[1].steering = "Left"
    /\ gpp_args.path[1].gear = "Backwards"
    /\ gpp_args.start_pose.theta_degree # 0
    /\ TurningPoint # StartPoint
    /\ LastPoint = StartPoint

====
